---- MODULE Spec2Model ----
(***************************************************************************)
(* The graph-construction core of gigagrad (src/src/graph.cpp): the node   *)
(* arena of a Graph, the shape/stride algebra, and the builder calls that  *)
(* append nodes to the arena.                                              *)
(*                                                                         *)
(* Arena indices are 0-based as in the source: node i is nodes[i + 1].     *)
(* A float is a pair <<num, den>>; the scalars the calls are given are     *)
(* integers <<v, 1>>.                                                      *)
(***************************************************************************)
EXTENDS Integers, Sequences, FiniteSets, TLC

VARIABLES
    nodes,          \* Graph::nodes, the arena
    inputs,         \* Graph::inputs, the arena indices registered by AddInput
    call,           \* the last builder call: its name, arguments and outcome
    input_handles,  \* the handles AddInput returned to the caller, in call order
    ops_made        \* the number of operator and function calls made so far

vars == <<nodes, inputs, call, input_handles, ops_made>>

(***************************************************************************)
(* Bounds of the model.                                                    *)
(***************************************************************************)
\* The caller makes at most MaxCalls operator and function calls.
MaxCalls == 1
\* The scalar operands of the evaluation runs range over -MaxVal .. MaxVal.
MaxVal == 2
\* The shape runs draw every shape of rank <= MaxRank with sizes 1 .. MaxDim.
MaxRank == 2
MaxDim == 3

(***************************************************************************)
(* Sequence helpers standing for the standard-library calls of the source. *)
(***************************************************************************)
RECURSIVE Product(_)
\* std::accumulate(begin, end, dim_t{1}, std::multiplies{})
Product(s) ==
    IF s = <<>> THEN 1 ELSE Head(s) * Product(Tail(s))

RECURSIVE Count(_, _)
\* std::count(begin, end, v)
Count(s, v) ==
    IF s = <<>> THEN 0 ELSE (IF Head(s) = v THEN 1 ELSE 0) + Count(Tail(s), v)

RECURSIVE Insert(_, _)
\* one step of insertion sort: d placed into the ascending sequence s
Insert(s, d) ==
    IF s = <<>> THEN <<d>>
    ELSE IF d <= Head(s) THEN <<d>> \o s
    ELSE <<Head(s)>> \o Insert(Tail(s), d)

RECURSIVE SortAscending(_)
\* std::sort(dims.begin(), dims.end())
SortAscending(s) ==
    IF s = <<>> THEN <<>> ELSE Insert(SortAscending(Tail(s)), Head(s))

\* std::iota(dims.begin(), dims.end(), 0) on a vector of n elements
Iota(n) ==
    [i \in 1..n |-> i - 1]

\* std::iota(std::rbegin(dims), std::rend(dims), 0) on a vector of n elements
IotaReversed(n) ==
    [i \in 1..n |-> n - i]

\* v.insert(v.begin() + pos, d)
InsertAt(v, pos, d) ==
    SubSeq(v, 1, pos) \o <<d>> \o SubSeq(v, pos + 1, Len(v))

\* The C++ remainder a % b for b > 0: the quotient truncates toward zero.
CRem(a, b) ==
    IF a >= 0 THEN a % b ELSE 0 - ((0 - a) % b)

(***************************************************************************)
(* Shape/stride algebra.                                                   *)
(***************************************************************************)
\* FixDim with mod > 0; mod = 0 divides by zero and is handled by the callers.
FixDim(dim, mod) ==
    CRem(CRem(dim, mod) + mod, mod)

RECURSIVE BroadcastLoop(_, _, _)
\* The loop of GetBroadcastedShape from iteration i on.
BroadcastLoop(larger, smaller, i) ==
    IF i >= Len(smaller) THEN [ok |-> TRUE, shape |-> larger]
    ELSE LET px == Len(larger) - i
             dim_x == larger[px]
             dim_y == smaller[Len(smaller) - i]
         IN  IF dim_x = 1 /\ dim_y # 1
                 THEN BroadcastLoop([larger EXCEPT ![px] = dim_y], smaller, i + 1)
             ELSE IF dim_x # 1 /\ dim_y = 1
                 THEN BroadcastLoop(larger, smaller, i + 1)
             ELSE IF dim_x = dim_y
                 THEN BroadcastLoop(larger, smaller, i + 1)
             ELSE [ok |-> FALSE, shape |-> <<>>]

\* A plausible slip: the two shapes compared from the left, not from the right.
GetBroadcastedShapeLeftAligned(x, y) ==
    LET larger == IF Len(x) > Len(y) THEN x ELSE y
        smaller == IF Len(x) > Len(y) THEN y ELSE x
        pad == [i \in 1..(Len(larger) - Len(smaller)) |-> 1]
    IN  BroadcastLoop(larger, smaller \o pad, 0)

\* ok = FALSE stands for std::domain_error.
GetBroadcastedShape(x, y) ==
    LET larger == IF Len(x) > Len(y) THEN x ELSE y
        smaller == IF Len(x) > Len(y) THEN y ELSE x
    IN  BroadcastLoop(larger, smaller, 0)

RECURSIVE StridesLoop(_, _, _)
\* The loop of ComputeStrides at 0-based position i.
StridesLoop(shape, i, cur) ==
    IF i < 0 THEN shape
    ELSE LET tmp == shape[i + 1]
         IN  StridesLoop([shape EXCEPT ![i + 1] = IF tmp = 1 THEN 0 ELSE cur],
                         i - 1, cur * tmp)

\* A plausible slip: plain row-major strides, a dimension of size 1 not forced
\* to stride 0.
ComputeStridesRowMajor(shape) ==
    [i \in 1..Len(shape) |-> Product(SubSeq(shape, i + 1, Len(shape)))]

ComputeStrides(shape) ==
    StridesLoop(shape, Len(shape) - 1, 1)

RECURSIVE MarkDims(_, _)
\* for(auto dim : op.dims) shape[dim] = -1
MarkDims(shape, dims) ==
    IF dims = <<>> THEN shape
    ELSE MarkDims([shape EXCEPT ![Head(dims) + 1] = -1], Tail(dims))

\* ComputeReducedShape on the input's shape; ok = FALSE stands for
\* std::domain_error.
ComputeReducedShape(x_shape, dims, keepdim) ==
    IF dims = <<>>
        THEN [ok |-> TRUE,
              shape |-> IF keepdim THEN [i \in 1..Len(x_shape) |-> 1] ELSE <<>>]
    ELSE IF Len(dims) > Len(x_shape)
        THEN [ok |-> FALSE, shape |-> <<>>]
    ELSE LET marked == MarkDims(x_shape, dims)
         IN  [ok |-> TRUE,
              shape |-> IF ~keepdim
                            THEN SelectSeq(marked, LAMBDA d : d # -1)
                            ELSE [i \in 1..Len(marked) |->
                                     IF marked[i] = -1 THEN 1 ELSE marked[i]]]

(***************************************************************************)
(* The node arena.  A graph value g is [nodes, inputs]; a builder returns  *)
(* [g, ok, h, err]: the graph as the call leaves it, whether it returned,  *)
(* the handle's index, and what ended it otherwise.  An exception does not *)
(* undo the insertions made before it was thrown.                          *)
(***************************************************************************)
Returned(g, h) ==
    [g |-> g, ok |-> TRUE, h |-> h, err |-> "none"]

\* throw std::domain_error(...)
Throw(g) ==
    [g |-> g, ok |-> FALSE, h |-> -1, err |-> "domain_error"]

\* An integer division by zero that traps: the call never returns.
Trap(g) ==
    [g |-> g, ok |-> FALSE, h |-> -1, err |-> "trap"]

\* struct GraphNode; a field a variant does not have is -1, <<>> or FALSE.
GraphNode(kind, type, x, y, dims, keepdim, value, shape, strides) ==
    [kind |-> kind, type |-> type, x |-> x, y |-> y, dims |-> dims,
     keepdim |-> keepdim, value |-> value, shape |-> shape, strides |-> strides]

\* GraphNodeHandle::GetNode
GetNode(g, h) ==
    g.nodes[h + 1]

\* GraphNodeHandle::shape
shape(g, h) ==
    GetNode(g, h).shape

\* GraphNodeHandle::strides
strides(g, h) ==
    GetNode(g, h).strides

\* A plausible slip: the handle takes the arena's size after the insertion.
AddNodeIndexAfter(g, node) ==
    Returned([g EXCEPT !.nodes = Append(@, node)], Len(g.nodes) + 1)

\* A plausible slip: the node is put at the front of the arena.
AddNodeAtFront(g, node) ==
    Returned([g EXCEPT !.nodes = <<node>> \o @], Len(g.nodes))

\* Graph::AddNode(GraphNode)
AddNode(g, node) ==
    Returned([g EXCEPT !.nodes = Append(@, node)], Len(g.nodes))

\* Graph::AddNode(Tensor, Shape, Shape)
AddNodeTensor(g, sh, st) ==
    AddNode(g, GraphNode("Tensor", "NONE", -1, -1, <<>>, FALSE, <<0, 1>>, sh, st))

\* Graph::AddNode(struct Immediate)
AddNodeImmediate(g, imm) ==
    AddNode(g, GraphNode("Immediate", "NONE", -1, -1, <<>>, FALSE, imm, <<>>, <<>>))

\* Graph::AddNode(UnaryOp)
AddNodeUnaryOp(g, type, x) ==
    AddNode(g, GraphNode("UnaryOp", type, x, -1, <<>>, FALSE, <<0, 1>>,
                         shape(g, x), strides(g, x)))

\* Graph::AddNode(BinaryOp)
AddNodeBinaryOp(g, type, x, y) ==
    LET b == GetBroadcastedShape(shape(g, x), shape(g, y))
    IN  IF ~b.ok THEN Throw(g)
        ELSE AddNode(g, GraphNode("BinaryOp", type, x, y, <<>>, FALSE, <<0, 1>>,
                                  b.shape, ComputeStrides(b.shape)))

\* Graph::AddNode(ReduceOp)
AddNodeReduceOp(g, type, x, dims, keepdim) ==
    LET r == ComputeReducedShape(shape(g, x), dims, keepdim)
    IN  IF ~r.ok THEN Throw(g)
        ELSE AddNode(g, GraphNode("ReduceOp", type, x, -1, dims, keepdim, <<0, 1>>,
                                  r.shape, ComputeStrides(r.shape)))

\* Graph::AddNode(ViewOp, Shape, Shape)
AddNodeViewOp(g, x, sh, st) ==
    AddNode(g, GraphNode("ViewOp", "NONE", x, -1, <<>>, FALSE, <<0, 1>>, sh, st))

\* Graph::Immediate
Immediate(g, imm) ==
    AddNodeImmediate(g, imm)

\* A plausible slip: the index is recorded after the node is inserted.
AddInputRecordedAfter(g, sh) ==
    LET r == AddNodeTensor(g, sh, ComputeStrides(sh))
    IN  [r EXCEPT !.g.inputs = Append(@, Len(r.g.nodes))]

\* Graph::AddInput(Shape)
AddInput(g, sh) ==
    LET g1 == [g EXCEPT !.inputs = Append(@, Len(g.nodes))]
    IN  AddNodeTensor(g1, sh, ComputeStrides(sh))

\* Graph::AddInput(dim_t)
AddInputDim(g, dim) ==
    AddInput(g, <<dim>>)

(***************************************************************************)
(* Unary operations and reductions.                                        *)
(***************************************************************************)
WrapInUnary(g, x, type) ==
    AddNodeUnaryOp(g, type, x)

\* The outcomes of FixDim(d, 0), an integer remainder by zero: the division
\* traps, or it yields some value.
DivByZeroOutcomes ==
    {[trap |-> TRUE, value |-> 0], [trap |-> FALSE, value |-> -1],
     [trap |-> FALSE, value |-> 1]}

\* What is left to chance in WrapInReduction(x, type, dims, keepdim).
ReductionOutcomes(g, x, dims) ==
    IF dims # <<>> /\ Len(shape(g, x)) = 0
        THEN DivByZeroOutcomes
        ELSE {[trap |-> FALSE, value |-> 0]}

\* A plausible slip: the fixed dims are left in the caller's order.
WrapInReductionUnsorted(g, x, type, dims, keepdim, ub) ==
    LET rank == Len(shape(g, x))
    IN  IF dims # <<>> /\ rank = 0
            THEN IF ub.trap THEN Trap(g)
                 ELSE AddNodeReduceOp(g, type, x, [i \in 1..Len(dims) |-> ub.value], keepdim)
            ELSE AddNodeReduceOp(g, type, x,
                                 [i \in 1..Len(dims) |-> FixDim(dims[i], rank)], keepdim)

\* ub is the outcome of the remainder by zero, read only when x is a scalar
\* and dims is not empty.
WrapInReduction(g, x, type, dims, keepdim, ub) ==
    LET rank == Len(shape(g, x))
    IN  IF dims # <<>> /\ rank = 0
            THEN IF ub.trap THEN Trap(g)
                 ELSE AddNodeReduceOp(g, type, x,
                          SortAscending([i \in 1..Len(dims) |-> ub.value]), keepdim)
            ELSE AddNodeReduceOp(g, type, x,
                     SortAscending([i \in 1..Len(dims) |-> FixDim(dims[i], rank)]),
                     keepdim)

\* GraphNodeHandle::sum(Dims, bool)
sum_dims(g, x, dims, keepdim, ub) ==
    WrapInReduction(g, x, "SUM", dims, keepdim, ub)

\* GraphNodeHandle::sum(dim_t, bool)
sum_dim(g, x, dim, keepdim, ub) ==
    sum_dims(g, x, <<dim>>, keepdim, ub)

\* GraphNodeHandle::sum(bool)
sum_all(g, x, keepdim, ub) ==
    sum_dims(g, x, Iota(Len(shape(g, x))), keepdim, ub)

\* GraphNodeHandle::max(Dims, bool)
max_dims(g, x, dims, keepdim, ub) ==
    WrapInReduction(g, x, "MAX", dims, keepdim, ub)

\* GraphNodeHandle::max(dim_t, bool)
max_dim(g, x, dim, keepdim, ub) ==
    max_dims(g, x, <<dim>>, keepdim, ub)

\* GraphNodeHandle::max(bool)
max_all(g, x, keepdim, ub) ==
    max_dims(g, x, Iota(Len(shape(g, x))), keepdim, ub)

(***************************************************************************)
(* Views.                                                                  *)
(***************************************************************************)
\* GraphNodeHandle::reshape(Shape).  new_shape holds no 0 and no negative size
\* but the placeholder -1, so the division is by a positive number.
reshape(g, x, new_shape) ==
    LET num_elements == Product(shape(g, x))
        num_implicit_dims == Count(new_shape, -1)
    IN  IF num_implicit_dims = 0
            THEN IF Product(new_shape) # num_elements
                     THEN Throw(g)
                     ELSE AddNodeViewOp(g, x, new_shape, ComputeStrides(new_shape))
        ELSE IF num_implicit_dims > 1
            THEN Throw(g)
        ELSE LET num_elems_not_including_implicit_dim ==
                     Product(SelectSeq(new_shape, LAMBDA d : d # -1))
                 remaining_dim == num_elements \div num_elems_not_including_implicit_dim
                 solved == [i \in 1..Len(new_shape) |->
                               IF new_shape[i] = -1 THEN remaining_dim ELSE new_shape[i]]
             IN  AddNodeViewOp(g, x, solved, ComputeStrides(solved))

\* GraphNodeHandle::reshape(dim_t)
reshape_length(g, x, length) ==
    reshape(g, x, <<length>>)

RECURSIVE PermuteLoop(_, _, _, _, _)
\* The loop of GraphNodeHandle::permute from 0-based iteration i on:
\* uniqueness is the set of the dims marked true.
PermuteLoop(x_shape, dims, i, uniqueness, new_shape) ==
    IF i >= Len(x_shape) THEN [ok |-> TRUE, shape |-> new_shape]
    ELSE LET fixed_dim == FixDim(dims[i + 1], Len(x_shape))
         IN  IF fixed_dim \in uniqueness THEN [ok |-> FALSE, shape |-> <<>>]
             ELSE PermuteLoop(x_shape, dims, i + 1, uniqueness \cup {fixed_dim},
                              [new_shape EXCEPT ![fixed_dim + 1] = x_shape[i + 1]])

\* A plausible slip: the axis order read the other way round, result
\* dimension i taking the size of input dimension dims[i].
permuteGathering(g, x, dims) ==
    LET x_shape == shape(g, x)
        p == PermuteLoop(x_shape, dims, 0, {}, [i \in 1..Len(x_shape) |-> 0])
        gathered == [i \in 1..Len(x_shape) |->
                        x_shape[FixDim(dims[i], Len(x_shape)) + 1]]
    IN  IF Len(dims) # Len(x_shape) THEN Throw(g)
        ELSE IF ~p.ok THEN Throw(g)
        ELSE AddNodeViewOp(g, x, gathered, ComputeStrides(gathered))

\* GraphNodeHandle::permute
permute(g, x, dims) ==
    LET x_shape == shape(g, x)
    IN  IF Len(dims) # Len(x_shape) THEN Throw(g)
        ELSE LET p == PermuteLoop(x_shape, dims, 0, {}, [i \in 1..Len(x_shape) |-> 0])
             IN  IF ~p.ok THEN Throw(g)
                 ELSE AddNodeViewOp(g, x, p.shape, ComputeStrides(p.shape))

\* GraphNodeHandle::transpose
transpose(g, x) ==
    permute(g, x, IotaReversed(Len(shape(g, x))))

(***************************************************************************)
(* Binary operators on two handles.                                        *)
(***************************************************************************)
\* operator+(GraphNodeHandle, GraphNodeHandle)
add_hh(g, x, y) ==
    AddNodeBinaryOp(g, "ADD", x, y)

\* operator-(GraphNodeHandle, GraphNodeHandle)
sub_hh(g, x, y) ==
    AddNodeBinaryOp(g, "SUB", x, y)

\* operator*(GraphNodeHandle, GraphNodeHandle)
mul_hh(g, x, y) ==
    AddNodeBinaryOp(g, "MUL", x, y)

\* operator/(GraphNodeHandle, GraphNodeHandle)
div_hh(g, x, y) ==
    AddNodeBinaryOp(g, "DIV", x, y)

\* operator==(GraphNodeHandle, GraphNodeHandle)
eq_hh(g, x, y) ==
    AddNodeBinaryOp(g, "CMP", x, y)

\* max(GraphNodeHandle, GraphNodeHandle)
max_hh(g, x, y) ==
    AddNodeBinaryOp(g, "MAX", x, y)

\* pow(GraphNodeHandle, GraphNodeHandle)
pow_hh(g, x, y) ==
    AddNodeBinaryOp(g, "POW", x, y)

(***************************************************************************)
(* Binary operators with a scalar: the scalar becomes an Immediate node.   *)
(***************************************************************************)
\* The float -x.
FNeg(f) ==
    <<0 - f[1], f[2]>>

\* operator+(float, GraphNodeHandle)
add_fh(g, x, y) ==
    LET xnode == AddNodeImmediate(g, x) IN add_hh(xnode.g, xnode.h, y)

\* operator+(GraphNodeHandle, float)
add_hf(g, x, y) ==
    add_fh(g, y, x)

\* operator-(float, GraphNodeHandle)
sub_fh(g, x, y) ==
    add_fh(g, FNeg(x), y)

\* operator-(GraphNodeHandle, float)
sub_hf(g, x, y) ==
    add_hf(g, x, FNeg(y))

\* operator*(float, GraphNodeHandle)
mul_fh(g, x, y) ==
    LET xnode == AddNodeImmediate(g, x) IN mul_hh(xnode.g, xnode.h, y)

\* operator*(GraphNodeHandle, float)
mul_hf(g, x, y) ==
    mul_fh(g, y, x)

\* operator/(float, GraphNodeHandle)
div_fh(g, x, y) ==
    LET xnode == AddNodeImmediate(g, x) IN div_hh(xnode.g, xnode.h, y)

\* operator/(GraphNodeHandle, float)
div_hf(g, x, y) ==
    LET ynode == AddNodeImmediate(g, y) IN div_hh(ynode.g, x, ynode.h)

\* operator^(GraphNodeHandle, float)
xor_hf(g, x, y) ==
    LET ynode == AddNodeImmediate(g, y)
    IN  AddNodeBinaryOp(ynode.g, "POW", x, ynode.h)

\* pow(GraphNodeHandle, float)
pow_hf(g, x, y) ==
    LET ynode == AddNodeImmediate(g, y)
    IN  AddNodeBinaryOp(ynode.g, "POW", x, ynode.h)

\* pow(float, GraphNodeHandle)
pow_fh(g, x, y) ==
    LET xnode == AddNodeImmediate(g, x)
    IN  AddNodeBinaryOp(xnode.g, "POW", xnode.h, y)

\* operator==(float, GraphNodeHandle)
eq_fh(g, x, y) ==
    LET xnode == AddNodeImmediate(g, x) IN eq_hh(xnode.g, xnode.h, y)

\* operator==(GraphNodeHandle, float)
eq_hf(g, x, y) ==
    eq_fh(g, y, x)

\* max(float, GraphNodeHandle)
max_fh(g, x, y) ==
    LET xnode == AddNodeImmediate(g, x) IN max_hh(xnode.g, xnode.h, y)

\* max(GraphNodeHandle, float)
max_hf(g, x, y) ==
    max_fh(g, y, x)

\* operator-(GraphNodeHandle): -1 * x
neg(g, x) ==
    mul_fh(g, <<-1, 1>>, x)

(***************************************************************************)
(* Derived operators: rewrites over the primitives.  Then(r, F) goes on    *)
(* with F on the graph and handle of r when r returned, and passes the     *)
(* exception on otherwise.                                                 *)
(***************************************************************************)
Then(r, F(_, _)) ==
    IF r.ok THEN F(r.g, r.h) ELSE r

\* operator>(GraphNodeHandle, GraphNodeHandle): max(x, y) == x
gt_hh(g, x, y) ==
    Then(max_hh(g, x, y), LAMBDA g1, m : eq_hh(g1, m, x))

\* operator>(GraphNodeHandle, float): max(x, y) == x
gt_hf(g, x, y) ==
    Then(max_hf(g, x, y), LAMBDA g1, m : eq_hh(g1, m, x))

\* operator>(float, GraphNodeHandle): max(x, y) == x
gt_fh(g, x, y) ==
    Then(max_fh(g, x, y), LAMBDA g1, m : eq_hf(g1, m, x))

\* operator<(GraphNodeHandle, GraphNodeHandle): y > x
lt_hh(g, x, y) ==
    gt_hh(g, y, x)

\* operator<(GraphNodeHandle, float): y > x
lt_hf(g, x, y) ==
    gt_fh(g, y, x)

\* operator<(float, GraphNodeHandle): y > x
lt_fh(g, x, y) ==
    gt_hf(g, y, x)

\* operator<=(GraphNodeHandle, GraphNodeHandle): max(x - y, 0.0f) == 0.0f
le_hh(g, x, y) ==
    Then(sub_hh(g, x, y), LAMBDA g1, d :
        Then(max_hf(g1, d, <<0, 1>>), LAMBDA g2, m : eq_hf(g2, m, <<0, 1>>)))

\* operator<=(GraphNodeHandle, float)
le_hf(g, x, y) ==
    Then(sub_hf(g, x, y), LAMBDA g1, d :
        Then(max_hf(g1, d, <<0, 1>>), LAMBDA g2, m : eq_hf(g2, m, <<0, 1>>)))

\* operator<=(float, GraphNodeHandle)
le_fh(g, x, y) ==
    Then(sub_fh(g, x, y), LAMBDA g1, d :
        Then(max_hf(g1, d, <<0, 1>>), LAMBDA g2, m : eq_hf(g2, m, <<0, 1>>)))

\* min(GraphNodeHandle, GraphNodeHandle): -max(-x, -y).  The two arguments of
\* max are evaluated in either order: x_first tells which.
min_hh(g, x, y, x_first) ==
    IF x_first
        THEN Then(neg(g, x), LAMBDA g1, nx :
                 Then(neg(g1, y), LAMBDA g2, ny :
                     Then(max_hh(g2, nx, ny), LAMBDA g3, m : neg(g3, m))))
        ELSE Then(neg(g, y), LAMBDA g1, ny :
                 Then(neg(g1, x), LAMBDA g2, nx :
                     Then(max_hh(g2, nx, ny), LAMBDA g3, m : neg(g3, m))))

\* min(float, GraphNodeHandle): -max(-x, -y)
min_fh(g, x, y) ==
    Then(neg(g, y), LAMBDA g1, ny :
        Then(max_fh(g1, FNeg(x), ny), LAMBDA g2, m : neg(g2, m)))

\* min(GraphNodeHandle, float): -max(-x, -y)
min_hf(g, x, y) ==
    Then(neg(g, x), LAMBDA g1, nx :
        Then(max_hf(g1, nx, FNeg(y)), LAMBDA g2, m : neg(g2, m)))

\* operator>=(GraphNodeHandle, GraphNodeHandle): min(x - y, 0.0f) == 0.0f
ge_hh(g, x, y) ==
    Then(sub_hh(g, x, y), LAMBDA g1, d :
        Then(min_hf(g1, d, <<0, 1>>), LAMBDA g2, m : eq_hf(g2, m, <<0, 1>>)))

\* operator>=(GraphNodeHandle, float)
ge_hf(g, x, y) ==
    Then(sub_hf(g, x, y), LAMBDA g1, d :
        Then(min_hf(g1, d, <<0, 1>>), LAMBDA g2, m : eq_hf(g2, m, <<0, 1>>)))

\* operator>=(float, GraphNodeHandle)
ge_fh(g, x, y) ==
    Then(sub_fh(g, x, y), LAMBDA g1, d :
        Then(min_hf(g1, d, <<0, 1>>), LAMBDA g2, m : eq_hf(g2, m, <<0, 1>>)))

\* exp(GraphNodeHandle)
exp(g, x) ==
    WrapInUnary(g, x, "EXP")

\* log(GraphNodeHandle)
log(g, x) ==
    WrapInUnary(g, x, "LOG")

\* sin(GraphNodeHandle)
sin(g, x) ==
    WrapInUnary(g, x, "SIN")

\* The float 3.14159265f/2.0f.
HalfPi ==
    <<314159265, 200000000>>

\* cos(GraphNodeHandle): sin(x + pi/2)
cos(g, x) ==
    Then(add_hf(g, x, HalfPi), LAMBDA g1, a : WrapInUnary(g1, a, "SIN"))

\* sigmoid(GraphNodeHandle): 1.0 / (1.0 + exp(-x))
sigmoid(g, x) ==
    Then(neg(g, x), LAMBDA g1, n :
        Then(exp(g1, n), LAMBDA g2, e :
            Then(add_fh(g2, <<1, 1>>, e), LAMBDA g3, a : div_fh(g3, <<1, 1>>, a))))

\* min(GraphNodeHandle, bool): -max(-x, keepdim)
min_all(g, x, keepdim, ub) ==
    Then(neg(g, x), LAMBDA g1, n :
        Then(max_all(g1, n, keepdim, ub), LAMBDA g2, m : neg(g2, m)))

\* min(GraphNodeHandle, dim_t, bool): -max(-x, axis, keepdim)
min_dim(g, x, axis, keepdim, ub) ==
    Then(neg(g, x), LAMBDA g1, n :
        Then(max_dim(g1, n, axis, keepdim, ub), LAMBDA g2, m : neg(g2, m)))

\* min(GraphNodeHandle, Dims, bool): -max(-x, dims, keepdim)
min_dims(g, x, dims, keepdim, ub) ==
    Then(neg(g, x), LAMBDA g1, n :
        Then(max_dims(g1, n, dims, keepdim, ub), LAMBDA g2, m : neg(g2, m)))

\* A plausible slip: the product is summed along its last axis.
matmulSumLastAxis(g, x, y) ==
    LET x0 == shape(g, x)
        y0 == shape(g, y)
        x1 == IF Len(x0) = 1 THEN <<1>> \o x0 ELSE x0
        y1 == IF Len(y0) = 1 THEN Append(y0, 1) ELSE y0
    IN  IF Len(x1) < 2 \/ Len(y1) < 2 THEN Throw(g)
        ELSE LET x_shape == Append(x1, 1)
                 y_shape == InsertAt(y1, Len(y1) - 2, 1)
             IN  IF x_shape[Len(x_shape) - 1] # y_shape[Len(y_shape) - 1] THEN Throw(g)
                 ELSE Then(reshape(g, x, x_shape), LAMBDA g1, x_reshaped :
                          Then(reshape(g1, y, y_shape), LAMBDA g2, y_reshaped :
                              Then(mul_hh(g2, x_reshaped, y_reshaped),
                                   LAMBDA g3, elementwise_mul :
                                       sum_dim(g3, elementwise_mul, -1, FALSE,
                                               [trap |-> FALSE, value |-> 0]))))

\* GraphNodeHandle::matmul.  The product has rank >= 3, so the sum's FixDim
\* never divides by zero.
matmul(g, x, y) ==
    LET x0 == shape(g, x)
        y0 == shape(g, y)
        x1 == IF Len(x0) = 1 THEN <<1>> \o x0 ELSE x0
        y1 == IF Len(y0) = 1 THEN Append(y0, 1) ELSE y0
    IN  IF Len(x1) < 2 \/ Len(y1) < 2 THEN Throw(g)
        ELSE LET x_shape == Append(x1, 1)
                 y_shape == InsertAt(y1, Len(y1) - 2, 1)
             IN  IF x_shape[Len(x_shape) - 1] # y_shape[Len(y_shape) - 1] THEN Throw(g)
                 ELSE Then(reshape(g, x, x_shape), LAMBDA g1, x_reshaped :
                          Then(reshape(g1, y, y_shape), LAMBDA g2, y_reshaped :
                              Then(mul_hh(g2, x_reshaped, y_reshaped),
                                   LAMBDA g3, elementwise_mul :
                                       sum_dim(g3, elementwise_mul, -2, FALSE,
                                               [trap |-> FALSE, value |-> 0]))))

(***************************************************************************)
(* The builder calls a caller makes on one Graph, each with handles the    *)
(* Graph produced.                                                         *)
(***************************************************************************)
\* The shapes AddInput is given.
InputShapes ==
    {<<3>>, <<2, 1, 2>>}

\* The scalars the calls are given.
Floats ==
    {<<2, 1>>}

\* The axes and axis lists the reductions are given.
AxisArgs ==
    {-1}

DimsArgs ==
    {<<>>, <<-1, 2>>, <<1, 0>>}

\* The shapes reshape is given, and the lengths reshape(dim_t) is given.
ReshapeArgs ==
    {<<-1>>, <<3, -1>>, <<-1, -1>>, <<4>>}

LengthArgs ==
    {3}

\* The axis orders permute is given.
PermuteArgs ==
    {<<2, 0, 1>>, <<0, 0, 2>>, <<0>>}

\* The Graph as the caller sees it.
G ==
    [nodes |-> nodes, inputs |-> inputs]

\* A builder call takes at most two handles: the caller declares one leaf
\* (AddInput, Immediate) for each before it makes the calls.
Operands ==
    {"x", "y"}

\* The handles the Graph has produced.
Handles ==
    0..(Len(nodes) - 1)

\* The arguments of a call, for the runs that look at them: handles x and y,
\* a scalar f, a shape or axis list arg, and keepdim.
Args(x, y, f, arg, keepdim) ==
    [x |-> x, y |-> y, f |-> f, arg |-> arg, keepdim |-> keepdim]

NoArgs ==
    Args(-1, -1, <<0, 1>>, <<>>, FALSE)

\* The call's effect on the Graph, and what the caller learns of it.
Outcome(name, r, args) ==
    /\ nodes' = r.g.nodes
    /\ inputs' = r.g.inputs
    /\ call' = [name |-> name, ok |-> r.ok, err |-> r.err, h |-> r.h, args |-> args]

\* The outcome of Graph::AddInput.
InputOutcome(name, r, args) ==
    /\ Outcome(name, r, args)
    /\ input_handles' = Append(input_handles, r.h)
    /\ UNCHANGED ops_made

\* The outcome of Graph::Immediate.
LeafOutcome(name, r, args) ==
    /\ Outcome(name, r, args)
    /\ UNCHANGED <<input_handles, ops_made>>

\* The outcome of an operator or function call.
OpOutcome(name, r, args) ==
    /\ Outcome(name, r, args)
    /\ ops_made' = ops_made + 1
    /\ UNCHANGED input_handles

\* A Graph is created empty.
Init ==
    /\ nodes = <<>>
    /\ inputs = <<>>
    /\ call = [name |-> "Graph", ok |-> TRUE, err |-> "none", h |-> -1, args |-> NoArgs]
    /\ input_handles = <<>>
    /\ ops_made = 0

\* Graph::AddInput(Shape)
CallAddInput ==
    /\ ops_made = 0 /\ Len(nodes) < Cardinality(Operands)
    /\ \E sh \in InputShapes :
           InputOutcome("Graph::AddInput(Shape)", AddInput(G, sh), NoArgs)

\* Graph::AddInput(dim_t)
CallAddInputDim ==
    /\ ops_made = 0 /\ Len(nodes) < Cardinality(Operands)
    /\ \E sh \in {s \in InputShapes : Len(s) = 1} :
           InputOutcome("Graph::AddInput(dim_t)", AddInputDim(G, sh[1]), NoArgs)

\* Graph::Immediate(float)
CallImmediate ==
    /\ ops_made = 0 /\ Len(nodes) < Cardinality(Operands)
    /\ \E imm \in Floats :
           LeafOutcome("Graph::Immediate(float)", Immediate(G, imm), NoArgs)

\* min(GraphNodeHandle, GraphNodeHandle)
CallMinHH ==
    /\ ops_made < MaxCalls
    /\ \E x \in Handles, y \in Handles, x_first \in BOOLEAN :
           OpOutcome("min(GraphNodeHandle, GraphNodeHandle)", min_hh(G, x, y, x_first),
                     NoArgs)

\* reshape(GraphNodeHandle, Shape)
CallReshape ==
    /\ ops_made < MaxCalls
    /\ \E x \in Handles, new_shape \in ReshapeArgs :
           OpOutcome("reshape(GraphNodeHandle, Shape)", reshape(G, x, new_shape), NoArgs)

\* reshape(GraphNodeHandle, dim_t)
CallReshapeLength ==
    /\ ops_made < MaxCalls
    /\ \E x \in Handles, length \in LengthArgs :
           OpOutcome("reshape(GraphNodeHandle, dim_t)", reshape_length(G, x, length),
                     NoArgs)

\* permute(GraphNodeHandle, Dims)
CallPermute ==
    /\ ops_made < MaxCalls
    /\ \E x \in Handles, dims \in PermuteArgs :
           OpOutcome("permute(GraphNodeHandle, Dims)", permute(G, x, dims), NoArgs)

\* operator+(GraphNodeHandle, GraphNodeHandle)
CallAddHH ==
    /\ ops_made < MaxCalls
    /\ \E x \in Handles, y \in Handles :
           OpOutcome("operator+(GraphNodeHandle, GraphNodeHandle)", add_hh(G, x, y), NoArgs)

\* operator+(float, GraphNodeHandle)
CallAddFH ==
    /\ ops_made < MaxCalls
    /\ \E x \in Floats, y \in Handles :
           OpOutcome("operator+(float, GraphNodeHandle)", add_fh(G, x, y), NoArgs)

\* operator+(GraphNodeHandle, float)
CallAddHF ==
    /\ ops_made < MaxCalls
    /\ \E x \in Handles, y \in Floats :
           OpOutcome("operator+(GraphNodeHandle, float)", add_hf(G, x, y), NoArgs)

\* operator-(GraphNodeHandle, GraphNodeHandle)
CallSubHH ==
    /\ ops_made < MaxCalls
    /\ \E x \in Handles, y \in Handles :
           OpOutcome("operator-(GraphNodeHandle, GraphNodeHandle)", sub_hh(G, x, y), NoArgs)

\* operator-(float, GraphNodeHandle)
CallSubFH ==
    /\ ops_made < MaxCalls
    /\ \E x \in Floats, y \in Handles :
           OpOutcome("operator-(float, GraphNodeHandle)", sub_fh(G, x, y), NoArgs)

\* operator-(GraphNodeHandle, float)
CallSubHF ==
    /\ ops_made < MaxCalls
    /\ \E x \in Handles, y \in Floats :
           OpOutcome("operator-(GraphNodeHandle, float)", sub_hf(G, x, y), NoArgs)

\* operator*(GraphNodeHandle, GraphNodeHandle)
CallMulHH ==
    /\ ops_made < MaxCalls
    /\ \E x \in Handles, y \in Handles :
           OpOutcome("operator*(GraphNodeHandle, GraphNodeHandle)", mul_hh(G, x, y), NoArgs)

\* operator*(float, GraphNodeHandle)
CallMulFH ==
    /\ ops_made < MaxCalls
    /\ \E x \in Floats, y \in Handles :
           OpOutcome("operator*(float, GraphNodeHandle)", mul_fh(G, x, y), NoArgs)

\* operator*(GraphNodeHandle, float)
CallMulHF ==
    /\ ops_made < MaxCalls
    /\ \E x \in Handles, y \in Floats :
           OpOutcome("operator*(GraphNodeHandle, float)", mul_hf(G, x, y), NoArgs)

\* operator/(GraphNodeHandle, GraphNodeHandle)
CallDivHH ==
    /\ ops_made < MaxCalls
    /\ \E x \in Handles, y \in Handles :
           OpOutcome("operator/(GraphNodeHandle, GraphNodeHandle)", div_hh(G, x, y), NoArgs)

\* operator/(float, GraphNodeHandle)
CallDivFH ==
    /\ ops_made < MaxCalls
    /\ \E x \in Floats, y \in Handles :
           OpOutcome("operator/(float, GraphNodeHandle)", div_fh(G, x, y), NoArgs)

\* operator/(GraphNodeHandle, float)
CallDivHF ==
    /\ ops_made < MaxCalls
    /\ \E x \in Handles, y \in Floats :
           OpOutcome("operator/(GraphNodeHandle, float)", div_hf(G, x, y), NoArgs)

\* operator^(GraphNodeHandle, float)
CallXorHF ==
    /\ ops_made < MaxCalls
    /\ \E x \in Handles, y \in Floats :
           OpOutcome("operator^(GraphNodeHandle, float)", xor_hf(G, x, y), NoArgs)

\* operator==(GraphNodeHandle, GraphNodeHandle)
CallEqHH ==
    /\ ops_made < MaxCalls
    /\ \E x \in Handles, y \in Handles :
           OpOutcome("operator==(GraphNodeHandle, GraphNodeHandle)", eq_hh(G, x, y), NoArgs)

\* operator==(float, GraphNodeHandle)
CallEqFH ==
    /\ ops_made < MaxCalls
    /\ \E x \in Floats, y \in Handles :
           OpOutcome("operator==(float, GraphNodeHandle)", eq_fh(G, x, y), NoArgs)

\* operator==(GraphNodeHandle, float)
CallEqHF ==
    /\ ops_made < MaxCalls
    /\ \E x \in Handles, y \in Floats :
           OpOutcome("operator==(GraphNodeHandle, float)", eq_hf(G, x, y), NoArgs)

\* operator<(GraphNodeHandle, float)
CallLtHF ==
    /\ ops_made < MaxCalls
    /\ \E x \in Handles, y \in Floats :
           OpOutcome("operator<(GraphNodeHandle, float)", lt_hf(G, x, y), NoArgs)

\* operator<(float, GraphNodeHandle)
CallLtFH ==
    /\ ops_made < MaxCalls
    /\ \E x \in Floats, y \in Handles :
           OpOutcome("operator<(float, GraphNodeHandle)", lt_fh(G, x, y), NoArgs)

\* operator<(GraphNodeHandle, GraphNodeHandle)
CallLtHH ==
    /\ ops_made < MaxCalls
    /\ \E x \in Handles, y \in Handles :
           OpOutcome("operator<(GraphNodeHandle, GraphNodeHandle)", lt_hh(G, x, y), NoArgs)

\* operator<=(GraphNodeHandle, float)
CallLeHF ==
    /\ ops_made < MaxCalls
    /\ \E x \in Handles, y \in Floats :
           OpOutcome("operator<=(GraphNodeHandle, float)", le_hf(G, x, y), NoArgs)

\* operator<=(float, GraphNodeHandle)
CallLeFH ==
    /\ ops_made < MaxCalls
    /\ \E x \in Floats, y \in Handles :
           OpOutcome("operator<=(float, GraphNodeHandle)", le_fh(G, x, y), NoArgs)

\* operator<=(GraphNodeHandle, GraphNodeHandle)
CallLeHH ==
    /\ ops_made < MaxCalls
    /\ \E x \in Handles, y \in Handles :
           OpOutcome("operator<=(GraphNodeHandle, GraphNodeHandle)", le_hh(G, x, y), NoArgs)

\* operator>(GraphNodeHandle, float)
CallGtHF ==
    /\ ops_made < MaxCalls
    /\ \E x \in Handles, y \in Floats :
           OpOutcome("operator>(GraphNodeHandle, float)", gt_hf(G, x, y), NoArgs)

\* operator>(float, GraphNodeHandle)
CallGtFH ==
    /\ ops_made < MaxCalls
    /\ \E x \in Floats, y \in Handles :
           OpOutcome("operator>(float, GraphNodeHandle)", gt_fh(G, x, y), NoArgs)

\* operator>(GraphNodeHandle, GraphNodeHandle)
CallGtHH ==
    /\ ops_made < MaxCalls
    /\ \E x \in Handles, y \in Handles :
           OpOutcome("operator>(GraphNodeHandle, GraphNodeHandle)", gt_hh(G, x, y), NoArgs)

\* operator>=(GraphNodeHandle, float)
CallGeHF ==
    /\ ops_made < MaxCalls
    /\ \E x \in Handles, y \in Floats :
           OpOutcome("operator>=(GraphNodeHandle, float)", ge_hf(G, x, y), NoArgs)

\* operator>=(float, GraphNodeHandle)
CallGeFH ==
    /\ ops_made < MaxCalls
    /\ \E x \in Floats, y \in Handles :
           OpOutcome("operator>=(float, GraphNodeHandle)", ge_fh(G, x, y), NoArgs)

\* operator>=(GraphNodeHandle, GraphNodeHandle)
CallGeHH ==
    /\ ops_made < MaxCalls
    /\ \E x \in Handles, y \in Handles :
           OpOutcome("operator>=(GraphNodeHandle, GraphNodeHandle)", ge_hh(G, x, y), NoArgs)

\* max(GraphNodeHandle, GraphNodeHandle)
CallMaxHH ==
    /\ ops_made < MaxCalls
    /\ \E x \in Handles, y \in Handles :
           OpOutcome("max(GraphNodeHandle, GraphNodeHandle)", max_hh(G, x, y), NoArgs)

\* max(float, GraphNodeHandle)
CallMaxFH ==
    /\ ops_made < MaxCalls
    /\ \E x \in Floats, y \in Handles :
           OpOutcome("max(float, GraphNodeHandle)", max_fh(G, x, y), NoArgs)

\* max(GraphNodeHandle, float)
CallMaxHF ==
    /\ ops_made < MaxCalls
    /\ \E x \in Handles, y \in Floats :
           OpOutcome("max(GraphNodeHandle, float)", max_hf(G, x, y), NoArgs)

\* min(float, GraphNodeHandle)
CallMinFH ==
    /\ ops_made < MaxCalls
    /\ \E x \in Floats, y \in Handles :
           OpOutcome("min(float, GraphNodeHandle)", min_fh(G, x, y), NoArgs)

\* min(GraphNodeHandle, float)
CallMinHF ==
    /\ ops_made < MaxCalls
    /\ \E x \in Handles, y \in Floats :
           OpOutcome("min(GraphNodeHandle, float)", min_hf(G, x, y), NoArgs)

\* pow(GraphNodeHandle, float)
CallPowHF ==
    /\ ops_made < MaxCalls
    /\ \E x \in Handles, y \in Floats :
           OpOutcome("pow(GraphNodeHandle, float)", pow_hf(G, x, y), NoArgs)

\* pow(float, GraphNodeHandle)
CallPowFH ==
    /\ ops_made < MaxCalls
    /\ \E x \in Floats, y \in Handles :
           OpOutcome("pow(float, GraphNodeHandle)", pow_fh(G, x, y), NoArgs)

\* pow(GraphNodeHandle, GraphNodeHandle)
CallPowHH ==
    /\ ops_made < MaxCalls
    /\ \E x \in Handles, y \in Handles :
           OpOutcome("pow(GraphNodeHandle, GraphNodeHandle)", pow_hh(G, x, y), NoArgs)

\* matmul(GraphNodeHandle, GraphNodeHandle)
CallMatmul ==
    /\ ops_made < MaxCalls
    /\ \E x \in Handles, y \in Handles :
           OpOutcome("matmul(GraphNodeHandle, GraphNodeHandle)", matmul(G, x, y), NoArgs)

\* exp(GraphNodeHandle)
CallExp ==
    /\ ops_made < MaxCalls
    /\ \E x \in Handles :
           OpOutcome("exp(GraphNodeHandle)", exp(G, x), NoArgs)

\* log(GraphNodeHandle)
CallLog ==
    /\ ops_made < MaxCalls
    /\ \E x \in Handles :
           OpOutcome("log(GraphNodeHandle)", log(G, x), NoArgs)

\* sin(GraphNodeHandle)
CallSin ==
    /\ ops_made < MaxCalls
    /\ \E x \in Handles :
           OpOutcome("sin(GraphNodeHandle)", sin(G, x), NoArgs)

\* cos(GraphNodeHandle)
CallCos ==
    /\ ops_made < MaxCalls
    /\ \E x \in Handles :
           OpOutcome("cos(GraphNodeHandle)", cos(G, x), NoArgs)

\* sigmoid(GraphNodeHandle)
CallSigmoid ==
    /\ ops_made < MaxCalls
    /\ \E x \in Handles :
           OpOutcome("sigmoid(GraphNodeHandle)", sigmoid(G, x), NoArgs)

\* operator-(GraphNodeHandle)
CallNeg ==
    /\ ops_made < MaxCalls
    /\ \E x \in Handles :
           OpOutcome("operator-(GraphNodeHandle)", neg(G, x), NoArgs)

\* transpose(GraphNodeHandle)
CallTranspose ==
    /\ ops_made < MaxCalls
    /\ \E x \in Handles :
           OpOutcome("transpose(GraphNodeHandle)", transpose(G, x), NoArgs)

\* sum(GraphNodeHandle, bool)
CallSumAll ==
    /\ ops_made < MaxCalls
    /\ \E x \in Handles, keepdim \in BOOLEAN :
       \E ub \in ReductionOutcomes(G, x, Iota(Len(shape(G, x)))) :
           OpOutcome("sum(GraphNodeHandle, bool)", sum_all(G, x, keepdim, ub), NoArgs)

\* sum(GraphNodeHandle, dim_t, bool)
CallSumDim ==
    /\ ops_made < MaxCalls
    /\ \E x \in Handles, axis \in AxisArgs, keepdim \in BOOLEAN :
       \E ub \in ReductionOutcomes(G, x, <<axis>>) :
           OpOutcome("sum(GraphNodeHandle, dim_t, bool)", sum_dim(G, x, axis, keepdim, ub), NoArgs)

\* sum(GraphNodeHandle, Dims, bool)
CallSumDims ==
    /\ ops_made < MaxCalls
    /\ \E x \in Handles, dims \in DimsArgs, keepdim \in BOOLEAN :
       \E ub \in ReductionOutcomes(G, x, dims) :
           OpOutcome("sum(GraphNodeHandle, Dims, bool)", sum_dims(G, x, dims, keepdim, ub), NoArgs)

\* max(GraphNodeHandle, bool)
CallMaxAll ==
    /\ ops_made < MaxCalls
    /\ \E x \in Handles, keepdim \in BOOLEAN :
       \E ub \in ReductionOutcomes(G, x, Iota(Len(shape(G, x)))) :
           OpOutcome("max(GraphNodeHandle, bool)", max_all(G, x, keepdim, ub), NoArgs)

\* max(GraphNodeHandle, dim_t, bool)
CallMaxDim ==
    /\ ops_made < MaxCalls
    /\ \E x \in Handles, axis \in AxisArgs, keepdim \in BOOLEAN :
       \E ub \in ReductionOutcomes(G, x, <<axis>>) :
           OpOutcome("max(GraphNodeHandle, dim_t, bool)", max_dim(G, x, axis, keepdim, ub), NoArgs)

\* max(GraphNodeHandle, Dims, bool)
CallMaxDims ==
    /\ ops_made < MaxCalls
    /\ \E x \in Handles, dims \in DimsArgs, keepdim \in BOOLEAN :
       \E ub \in ReductionOutcomes(G, x, dims) :
           OpOutcome("max(GraphNodeHandle, Dims, bool)", max_dims(G, x, dims, keepdim, ub), NoArgs)

\* min(GraphNodeHandle, bool)
CallMinAll ==
    /\ ops_made < MaxCalls
    /\ \E x \in Handles, keepdim \in BOOLEAN :
       \E ub \in ReductionOutcomes(G, x, Iota(Len(shape(G, x)))) :
           OpOutcome("min(GraphNodeHandle, bool)", min_all(G, x, keepdim, ub), NoArgs)

\* min(GraphNodeHandle, dim_t, bool)
CallMinDim ==
    /\ ops_made < MaxCalls
    /\ \E x \in Handles, axis \in AxisArgs, keepdim \in BOOLEAN :
       \E ub \in ReductionOutcomes(G, x, <<axis>>) :
           OpOutcome("min(GraphNodeHandle, dim_t, bool)", min_dim(G, x, axis, keepdim, ub), NoArgs)

\* min(GraphNodeHandle, Dims, bool)
CallMinDims ==
    /\ ops_made < MaxCalls
    /\ \E x \in Handles, dims \in DimsArgs, keepdim \in BOOLEAN :
       \E ub \in ReductionOutcomes(G, x, dims) :
           OpOutcome("min(GraphNodeHandle, Dims, bool)", min_dims(G, x, dims, keepdim, ub), NoArgs)

Next ==
    \/ CallAddInput \/ CallAddInputDim \/ CallImmediate \/ CallMinHH
    \/ CallReshape \/ CallReshapeLength \/ CallPermute
    \/ CallAddHH \/ CallAddFH \/ CallAddHF \/ CallSubHH
    \/ CallSubFH \/ CallSubHF \/ CallMulHH \/ CallMulFH
    \/ CallMulHF \/ CallDivHH \/ CallDivFH \/ CallDivHF
    \/ CallXorHF \/ CallEqHH \/ CallEqFH \/ CallEqHF
    \/ CallLtHF \/ CallLtFH \/ CallLtHH \/ CallLeHF
    \/ CallLeFH \/ CallLeHH \/ CallGtHF \/ CallGtFH
    \/ CallGtHH \/ CallGeHF \/ CallGeFH \/ CallGeHH
    \/ CallMaxHH \/ CallMaxFH \/ CallMaxHF \/ CallMinFH
    \/ CallMinHF \/ CallPowHF \/ CallPowFH \/ CallPowHH
    \/ CallMatmul \/ CallExp \/ CallLog \/ CallSin
    \/ CallCos \/ CallSigmoid \/ CallNeg \/ CallTranspose
    \/ CallSumAll \/ CallSumDim \/ CallSumDims \/ CallMaxAll
    \/ CallMaxDim \/ CallMaxDims \/ CallMinAll \/ CallMinDim
    \/ CallMinDims

Spec ==
    Init /\ [][Next]_vars

(***************************************************************************)
(* Claims about any sequence of builder calls (specification Spec).        *)
(***************************************************************************)
\* The node references a node holds.
Refs(node) ==
    CASE node.kind = "UnaryOp" -> {node.x}
      [] node.kind = "BinaryOp" -> {node.x, node.y}
      [] node.kind = "ReduceOp" -> {node.x}
      [] node.kind = "ViewOp" -> {node.x}
      [] OTHER -> {}

\* C1: a builder call that fails with a shape/domain error leaves the Graph as
\* it was before the call: the node sequence and the input list are unchanged.
C1_FailedCallLeavesGraphUnchanged ==
    [][call'.err = "domain_error" => nodes' = nodes /\ inputs' = inputs]_vars

\* C2: every node reference held by a UnaryOp, BinaryOp, ReduceOp or ViewOp
\* node is an arena index strictly less than the index of the node holding it.
C2_RefsPrecedeHolder ==
    \A i \in Handles : \A r \in Refs(nodes[i + 1]) : 0 <= r /\ r < i

\* C2's case: a call has lowered into several nodes, the last of which holds
\* references to two nodes the same call inserted.
C2_Witness ==
    /\ call.ok /\ ops_made = 1 /\ Len(nodes) >= 5
    /\ nodes[Len(nodes)].kind = "BinaryOp"
    /\ nodes[Len(nodes)].x = Len(nodes) - 2
    /\ nodes[Len(nodes)].y = Len(nodes) - 3

\* C3: the arena is append-only: a call leaves every node that existed at its
\* index, unchanged, the number of nodes never decreases, and the handle a call
\* returns is the index of the node it appended last, a node that did not
\* exist before the call.
C3_AppendOnly ==
    [][/\ Len(nodes') >= Len(nodes)
       /\ SubSeq(nodes', 1, Len(nodes)) = nodes
       /\ (call'.ok => call'.h = Len(nodes') - 1 /\ call'.h >= Len(nodes))]_vars

\* C3's case: an operator call on a Graph of two leaves has returned the handle
\* of the last of several nodes it appended.
C3_Witness ==
    /\ call.ok /\ ops_made = 1 /\ Len(inputs) = 2
    /\ Len(nodes) >= 4 /\ call.h = Len(nodes) - 1

\* The names of the AddInput calls.
AddInputNames ==
    {"Graph::AddInput(Shape)", "Graph::AddInput(dim_t)"}

\* C4, the state part: the input list is the list of handles the AddInput
\* calls returned, in call order; every entry is the index of an existing
\* Tensor node and the entries are strictly ascending.
C4_InputsState ==
    /\ inputs = input_handles
    /\ \A k \in 1..Len(inputs) :
          /\ inputs[k] \in Handles
          /\ nodes[inputs[k] + 1].kind = "Tensor"
    /\ \A k \in 1..(Len(inputs) - 1) : inputs[k] < inputs[k + 1]

\* C4: the input list holds one entry per AddInput call, in call order, each
\* the index of the Tensor node that call returned, strictly ascending; no
\* call other than AddInput changes the list, and AddInput appends one entry.
C4_InputsInCallOrder ==
    /\ []C4_InputsState
    /\ [][IF call'.name \in AddInputNames
              THEN Len(inputs') = Len(inputs) + 1
              ELSE inputs' = inputs]_vars

\* C4's case: two inputs were declared and an operator call has since appended
\* several nodes, none of them an input.
C4_Witness ==
    /\ Len(inputs) = 2 /\ inputs = <<0, 1>>
    /\ ops_made = 1 /\ call.ok /\ Len(nodes) > 3

\* Whether s is strictly ascending / ascending with repeats allowed.
StrictlyAscending(s) ==
    \A k \in 1..(Len(s) - 1) : s[k] < s[k + 1]

Ascending(s) ==
    \A k \in 1..(Len(s) - 1) : s[k] <= s[k + 1]

\* The ReduceOp nodes of the arena.
ReduceNodes ==
    {i \in Handles : nodes[i + 1].kind = "ReduceOp"}

\* C9 as stated: the dims of every ReduceOp node are sorted ascending, hold no
\* duplicate, and lie in [0, rank of the input).
C9_DimsSortedUniqueInRange ==
    \A i \in ReduceNodes :
        LET n == nodes[i + 1]
        IN  /\ StrictlyAscending(n.dims)
            /\ \A k \in 1..Len(n.dims) :
                  0 <= n.dims[k] /\ n.dims[k] < Len(nodes[n.x + 1].shape)

\* C9 amended: the dims of every ReduceOp node are sorted ascending, an axis
\* the caller named more than once being stored as often, and lie in
\* [0, rank of the input).
C9_DimsSortedInRange ==
    \A i \in ReduceNodes :
        LET n == nodes[i + 1]
        IN  /\ Ascending(n.dims)
            /\ \A k \in 1..Len(n.dims) :
                  0 <= n.dims[k] /\ n.dims[k] < Len(nodes[n.x + 1].shape)

\* C9's case: a reduction given the axis list <<1, 0>>, out of order, has
\* stored it as <<0, 1>>.
C9_Witness ==
    \E i \in ReduceNodes : nodes[i + 1].dims = <<0, 1>> /\ Len(nodes[nodes[i + 1].x + 1].shape) = 3

\* The canonical strides of a shape, as the claim words them: 0 at a dimension
\* of size 1, elsewhere the product of the sizes to its right.
CanonicalStrides(sh) ==
    [i \in 1..Len(sh) |->
        IF sh[i] = 1 THEN 0 ELSE Product(SubSeq(sh, i + 1, Len(sh)))]

\* C11: every node of the arena, of every variant, has strides as long as its
\* shape, and they are the canonical strides of the node's own shape.
C11_StridesCanonical ==
    \A i \in 1..Len(nodes) :
        /\ Len(nodes[i].strides) = Len(nodes[i].shape)
        /\ nodes[i].strides = CanonicalStrides(nodes[i].shape)

\* C11's case: a UnaryOp node, which copies its input's strides, on a shape
\* with a dimension of size 1 between larger ones.
C11_Witness ==
    \E i \in 1..Len(nodes) :
        /\ nodes[i].kind = "UnaryOp"
        /\ nodes[i].shape = <<2, 1, 2>>
        /\ nodes[i].strides = <<2, 0, 1>>

(***************************************************************************)
(* Runs of one function on drawn operands: the caller declares the         *)
(* operands, then makes the one call.                                      *)
(***************************************************************************)
\* Every shape of rank <= MaxRank with sizes 1 .. MaxDim.
AllShapes ==
    UNION {[1..r -> 1..MaxDim] : r \in 0..MaxRank}

\* The call under study is the first operator call on the declared operands.
OperandsDeclared ==
    ops_made = 0 /\ Len(nodes) = Len(inputs) /\ Len(nodes) > 0

\* Graph::AddInput(Shape), with a shape of the set shapes.
DeclareOperand(shapes) ==
    /\ ops_made = 0 /\ Len(nodes) < Cardinality(Operands)
    /\ \E sh \in shapes :
           InputOutcome("Graph::AddInput(Shape)", AddInput(G, sh),
                        Args(-1, -1, <<0, 1>>, sh, FALSE))

\* The shape of the node a handle of the last call's arguments refers to.
ShapeOf(h) ==
    nodes[h + 1].shape

\* The shape of the node the last call returned.
ResultShape ==
    nodes[call.h + 1].shape

(***************************************************************************)
(* Broadcasting (specification SpecBroadcast).                             *)
(***************************************************************************)
BroadcastShapes ==
    AllShapes \cup {<<4, 1, 3>>, <<1, 5, 3>>, <<2, 3>>, <<4>>}

\* enum class BinaryOpType
BinaryOpTypes ==
    {"ADD", "SUB", "MUL", "DIV", "POW", "MAX", "CMP"}

BroadcastOperand ==
    DeclareOperand(BroadcastShapes)

\* Graph::AddNode(BinaryOp) on two declared operands.
BroadcastBinaryOp ==
    /\ OperandsDeclared
    /\ \E x \in Handles, y \in Handles, type \in BinaryOpTypes :
           OpOutcome("Graph::AddNode(BinaryOp)", AddNodeBinaryOp(G, type, x, y),
                     Args(x, y, <<0, 1>>, <<>>, FALSE))

NextBroadcast ==
    BroadcastOperand \/ BroadcastBinaryOp

SpecBroadcast ==
    Init /\ [][NextBroadcast]_vars

\* The size of shape a at offset i from the right (i = 1 is the last one).
FromRight(a, i) ==
    a[Len(a) - i + 1]

\* Shapes a and b are compatible: no aligned pair differs with neither side 1.
Compatible(a, b) ==
    \A i \in 1..(IF Len(a) < Len(b) THEN Len(a) ELSE Len(b)) :
        FromRight(a, i) = FromRight(b, i) \/ FromRight(a, i) = 1 \/ FromRight(b, i) = 1

\* Shape r is the right-aligned broadcast of the compatible shapes a and b.
IsBroadcastOf(r, a, b) ==
    LET longer == IF Len(a) > Len(b) THEN a ELSE b
        shorter == IF Len(a) > Len(b) THEN b ELSE a
    IN  /\ Len(r) = Len(longer)
        /\ \A i \in 1..Len(r) :
              FromRight(r, i) =
                  IF i > Len(shorter) THEN FromRight(longer, i)
                  ELSE IF FromRight(a, i) = 1 THEN FromRight(b, i)
                  ELSE FromRight(a, i)

\* C5: a binary operation succeeds exactly when its two input shapes are
\* compatible, and its result shape is then their right-aligned broadcast:
\* the larger rank, the other side where one side is 1, the common size where
\* both agree, the longer shape's leading sizes kept; [4,1,3] with [1,5,3]
\* gives [4,5,3] and [2,3] with [4] fails, whichever operand is on the left.
C5_BroadcastShape ==
    call.name = "Graph::AddNode(BinaryOp)" =>
        LET a == ShapeOf(call.args.x)
            b == ShapeOf(call.args.y)
        IN  /\ call.ok <=> Compatible(a, b)
            /\ call.ok => IsBroadcastOf(ResultShape, a, b)
            /\ {a, b} = {<<4, 1, 3>>, <<1, 5, 3>>} =>
                   call.ok /\ ResultShape = <<4, 5, 3>>
            /\ {a, b} = {<<2, 3>>, <<4>>} => ~call.ok

\* C5's case: [4,1,3] on the left and [1,5,3] on the right gave [4,5,3].
C5_Witness ==
    /\ call.name = "Graph::AddNode(BinaryOp)" /\ call.ok
    /\ ShapeOf(call.args.x) = <<4, 1, 3>> /\ ShapeOf(call.args.y) = <<1, 5, 3>>
    /\ ResultShape = <<4, 5, 3>>

(***************************************************************************)
(* Matrix multiply (specification SpecMatmul).                             *)
(***************************************************************************)
MatmulShapes ==
    AllShapes \cup {<<5, 3>>, <<3, 7>>, <<2, 1, 1>>, <<3, 1, 1>>}

MatmulOperand ==
    DeclareOperand(MatmulShapes)

\* matmul(GraphNodeHandle, GraphNodeHandle) on two declared operands.
MatmulOnOperands ==
    /\ OperandsDeclared
    /\ \E x \in Handles, y \in Handles :
           OpOutcome("matmul(GraphNodeHandle, GraphNodeHandle)", matmul(G, x, y),
                     Args(x, y, <<0, 1>>, <<>>, FALSE))

NextMatmul ==
    MatmulOperand \/ MatmulOnOperands

SpecMatmul ==
    Init /\ [][NextMatmul]_vars

\* C6 as stated: matmul of [m,k] and [k,n] yields a node of shape [m,n], and
\* matmul of a vector [k] and [k,n] yields a node of shape [n].
C6_MatmulShapeSqueezed ==
    call.name = "matmul(GraphNodeHandle, GraphNodeHandle)" =>
        LET a == ShapeOf(call.args.x)
            b == ShapeOf(call.args.y)
        IN  /\ Len(a) = 2 /\ Len(b) = 2 /\ a[2] = b[1] =>
                   call.ok /\ ResultShape = <<a[1], b[2]>>
            /\ Len(a) = 1 /\ Len(b) = 2 /\ a[1] = b[1] =>
                   call.ok /\ ResultShape = <<b[2]>>

\* C6 amended: matmul of [m,k] and [k,n] yields a node of shape [m,n] ([5,3]
\* and [3,7] give [5,7]), and matmul of a vector [k] and [k,n] yields a node of
\* shape [1,n], the leading 1 retained ([3] and [3,7] give [1,7]).
C6_MatmulShape ==
    call.name = "matmul(GraphNodeHandle, GraphNodeHandle)" =>
        LET a == ShapeOf(call.args.x)
            b == ShapeOf(call.args.y)
        IN  /\ Len(a) = 2 /\ Len(b) = 2 /\ a[2] = b[1] =>
                   call.ok /\ ResultShape = <<a[1], b[2]>>
            /\ Len(a) = 1 /\ Len(b) = 2 /\ a[1] = b[1] =>
                   call.ok /\ ResultShape = <<1, b[2]>>
            /\ a = <<5, 3>> /\ b = <<3, 7>> => call.ok /\ ResultShape = <<5, 7>>
            /\ a = <<3>> /\ b = <<3, 7>> => call.ok /\ ResultShape = <<1, 7>>

\* C6's case: the vector [3] times [3,7] returned a node of shape [1,7], the
\* sum of the product of two views.
C6_Witness ==
    /\ call.name = "matmul(GraphNodeHandle, GraphNodeHandle)" /\ call.ok
    /\ ShapeOf(call.args.x) = <<3>> /\ ShapeOf(call.args.y) = <<3, 7>>
    /\ ResultShape = <<1, 7>>
    /\ nodes[call.h + 1].kind = "ReduceOp" /\ Len(nodes) = 6

(***************************************************************************)
(* Views (specification SpecView): one declared operand, one call.         *)
(***************************************************************************)
ViewShapes ==
    AllShapes \cup {<<2, 3, 4>>}

\* The axis orders permute is given for an input of rank r: every list of r
\* axes in -r .. r-1, and a list one shorter and one longer than the rank.
AxisOrders(r) ==
    [1..r -> (0 - r)..(r - 1)] \cup {Iota(r + 1)}
        \cup (IF r > 0 THEN {Iota(r - 1)} ELSE {})

\* The shapes reshape is given: every list of one or two sizes in 1 .. MaxDim
\* or the placeholder -1, and the shapes of the examples.
ReshapeShapes ==
    UNION {[1..r -> {-1} \cup 1..MaxDim] : r \in 1..2}
        \cup {<<-1, 4>>, <<5, -1>>, <<6, 4>>, <<24>>}

ViewOperand ==
    /\ nodes = <<>>
    /\ DeclareOperand(ViewShapes)

\* permute(GraphNodeHandle, Dims) on the declared operand.
PermuteOnOperand ==
    /\ OperandsDeclared
    /\ \E x \in Handles :
       \E dims \in AxisOrders(Len(ShapeOf(x))) :
           OpOutcome("permute(GraphNodeHandle, Dims)", permute(G, x, dims),
                     Args(x, -1, <<0, 1>>, dims, FALSE))

\* transpose(GraphNodeHandle) on the declared operand.
TransposeOnOperand ==
    /\ OperandsDeclared
    /\ \E x \in Handles :
           OpOutcome("transpose(GraphNodeHandle)", transpose(G, x),
                     Args(x, -1, <<0, 1>>, <<>>, FALSE))

\* reshape(GraphNodeHandle, Shape) on the declared operand.
ReshapeOnOperand ==
    /\ OperandsDeclared
    /\ \E x \in Handles, new_shape \in ReshapeShapes :
           OpOutcome("reshape(GraphNodeHandle, Shape)", reshape(G, x, new_shape),
                     Args(x, -1, <<0, 1>>, new_shape, FALSE))

NextView ==
    ViewOperand \/ PermuteOnOperand \/ TransposeOnOperand \/ ReshapeOnOperand

SpecView ==
    Init /\ [][NextView]_vars

\* dims is a valid permutation of the axes of an input of rank r: r axes that,
\* brought into 0 .. r-1, are all different.
ValidPermutation(dims, r) ==
    /\ Len(dims) = r
    /\ \A i \in 1..r : \A j \in 1..r : i # j => dims[i] % r # dims[j] % r

\* C7 as stated: for a valid permutation dims, permute yields a ViewOp node
\* whose dimension i has the size of input dimension FixDim(dims[i], rank);
\* [2,0,1] on [2,3,4] yields [4,2,3].
C7_PermuteGathers ==
    call.name = "permute(GraphNodeHandle, Dims)" =>
        LET a == ShapeOf(call.args.x)
            dims == call.args.arg
        IN  /\ ValidPermutation(dims, Len(a)) =>
                  /\ call.ok /\ nodes[call.h + 1].kind = "ViewOp"
                  /\ Len(ResultShape) = Len(a)
                  /\ \A i \in 1..Len(a) : ResultShape[i] = a[(dims[i] % Len(a)) + 1]
            /\ a = <<2, 3, 4>> /\ dims = <<2, 0, 1>> => ResultShape = <<4, 2, 3>>

\* C7 amended: for a valid permutation dims, permute yields a ViewOp node
\* whose dimension FixDim(dims[i], rank) has the size of input dimension i;
\* [2,0,1] on [2,3,4] yields [3,4,2].
C7_PermuteScatters ==
    call.name = "permute(GraphNodeHandle, Dims)" =>
        LET a == ShapeOf(call.args.x)
            dims == call.args.arg
        IN  /\ ValidPermutation(dims, Len(a)) =>
                  /\ call.ok /\ nodes[call.h + 1].kind = "ViewOp"
                  /\ Len(ResultShape) = Len(a)
                  /\ \A i \in 1..Len(a) : ResultShape[(dims[i] % Len(a)) + 1] = a[i]
            /\ a = <<2, 3, 4>> /\ dims = <<2, 0, 1>> => ResultShape = <<3, 4, 2>>

\* C7's case: permute with [2,0,1] on an input of shape [2,3,4] returned a
\* ViewOp node of shape [3,4,2].
C7_Witness ==
    /\ call.name = "permute(GraphNodeHandle, Dims)" /\ call.ok
    /\ ShapeOf(call.args.x) = <<2, 3, 4>> /\ call.args.arg = <<2, 0, 1>>
    /\ nodes[call.h + 1].kind = "ViewOp" /\ ResultShape = <<3, 4, 2>>

\* C8: a reshape that succeeds yields a ViewOp node whose shape has the
\* input's element count and no -1; with exactly one -1 the placeholder is
\* the element count divided by the product of the other sizes ([2,3,4] to
\* [-1,4] gives [6,4]), and when that division is not exact ([2,3,4] to
\* [5,-1]) the call fails.
C8_ReshapeKeepsElementCount ==
    call.name = "reshape(GraphNodeHandle, Shape)" =>
        LET a == ShapeOf(call.args.x)
            new_shape == call.args.arg
            others == Product(SelectSeq(new_shape, LAMBDA d : d # -1))
        IN  /\ call.ok =>
                  /\ nodes[call.h + 1].kind = "ViewOp"
                  /\ Product(ResultShape) = Product(a)
                  /\ Count(ResultShape, -1) = 0
            /\ call.ok /\ Count(new_shape, -1) = 1 =>
                  ResultShape = [i \in 1..Len(new_shape) |->
                                    IF new_shape[i] = -1 THEN Product(a) \div others
                                    ELSE new_shape[i]]
            /\ Count(new_shape, -1) = 1 /\ Product(a) % others # 0 => ~call.ok
            /\ a = <<2, 3, 4>> /\ new_shape = <<-1, 4>> =>
                  call.ok /\ ResultShape = <<6, 4>>

(***************************************************************************)
(* Comparisons of scalars (specification SpecCompare).  A node is read as  *)
(* a number: MAX as the numeric maximum, CMP as the equality test, true    *)
(* being 1 and false 0.                                                    *)
(***************************************************************************)
\* The scalars of the runs.
Scalars ==
    {<<v, 1>> : v \in (0 - MaxVal)..MaxVal}

RECURSIVE Eval(_)
\* The value of scalar node i, built of Immediate nodes and ADD, SUB, MUL, MAX
\* and CMP nodes.
Eval(i) ==
    LET n == nodes[i + 1]
    IN  IF n.kind = "Immediate" THEN n.value[1]
        ELSE LET a == Eval(n.x)
                 b == Eval(n.y)
             IN  CASE n.type = "ADD" -> a + b
                   [] n.type = "SUB" -> a - b
                   [] n.type = "MUL" -> a * b
                   [] n.type = "MAX" -> IF a > b THEN a ELSE b
                   [] n.type = "CMP" -> IF a = b THEN 1 ELSE 0

\* Graph::Immediate(float): a scalar operand.
CompareOperand ==
    /\ ops_made = 0 /\ Len(nodes) < Cardinality(Operands)
    /\ \E imm \in Scalars :
           LeafOutcome("Graph::Immediate(float)", Immediate(G, imm),
                       Args(-1, -1, imm, <<>>, FALSE))

\* operator>(GraphNodeHandle, GraphNodeHandle) on scalar operands.
GreaterOnOperands ==
    /\ ops_made = 0
    /\ \E x \in Handles, y \in Handles :
           OpOutcome("operator>", gt_hh(G, x, y), Args(x, y, <<0, 1>>, <<>>, FALSE))

\* operator>(GraphNodeHandle, float) on a scalar operand.
GreaterOnOperandAndFloat ==
    /\ ops_made = 0
    /\ \E x \in Handles, y \in Scalars :
           OpOutcome("operator>", gt_hf(G, x, y), Args(x, -1, y, <<>>, FALSE))

\* operator>(float, GraphNodeHandle) on a scalar operand.
GreaterOnFloatAndOperand ==
    /\ ops_made = 0
    /\ \E x \in Scalars, y \in Handles :
           OpOutcome("operator>", gt_fh(G, x, y), Args(-1, y, x, <<>>, FALSE))

NextCompare ==
    \/ CompareOperand \/ GreaterOnOperands
    \/ GreaterOnOperandAndFloat \/ GreaterOnFloatAndOperand

SpecCompare ==
    Init /\ [][NextCompare]_vars

\* The values of the last call's left and right operand: a handle's node read
\* as a number, or the scalar given in its place.
LeftValue ==
    IF call.args.x >= 0 THEN Eval(call.args.x) ELSE call.args.f[1]

RightValue ==
    IF call.args.y >= 0 THEN Eval(call.args.y) ELSE call.args.f[1]

\* C10: for scalar operands the sub-graph x > y builds evaluates to true
\* exactly when the value of x is strictly greater than the value of y.
C10_GreaterIsStrict ==
    call.name = "operator>" /\ call.ok =>
        (Eval(call.h) = 1 <=> LeftValue > RightValue)

(***************************************************************************)
(* A scalar on the left of -, <= and >= (specification SpecScalarLeft):    *)
(* the operand h is a scalar node, s a float, and the sub-graph the call   *)
(* builds is read by Eval.                                                 *)
(***************************************************************************)
\* operator-(float, GraphNodeHandle) on a scalar operand.
SubtractOperandFromFloat ==
    /\ ops_made = 0
    /\ \E x \in Scalars, y \in Handles :
           OpOutcome("operator-", sub_fh(G, x, y), Args(-1, y, x, <<>>, FALSE))

\* operator<=(float, GraphNodeHandle) on a scalar operand.
LessEqualOnFloatAndOperand ==
    /\ ops_made = 0
    /\ \E x \in Scalars, y \in Handles :
           OpOutcome("operator<=", le_fh(G, x, y), Args(-1, y, x, <<>>, FALSE))

\* operator>=(float, GraphNodeHandle) on a scalar operand.
GreaterEqualOnFloatAndOperand ==
    /\ ops_made = 0
    /\ \E x \in Scalars, y \in Handles :
           OpOutcome("operator>=", ge_fh(G, x, y), Args(-1, y, x, <<>>, FALSE))

NextScalarLeft ==
    \/ CompareOperand \/ SubtractOperandFromFloat
    \/ LessEqualOnFloatAndOperand \/ GreaterEqualOnFloatAndOperand

SpecScalarLeft ==
    Init /\ [][NextScalarLeft]_vars

\* C12: for a scalar s and a scalar-valued handle h, the sub-graph s - h
\* builds denotes s minus the value of h, and the sub-graphs s <= h and
\* s >= h are true exactly when s is at most, respectively at least, the
\* value of h.
C12_ScalarOnLeftKeepsDirection ==
    /\ call.name = "operator-" /\ call.ok =>
           Eval(call.h) = LeftValue - RightValue
    /\ call.name = "operator<=" /\ call.ok =>
           (Eval(call.h) = 1 <=> LeftValue <= RightValue)
    /\ call.name = "operator>=" /\ call.ok =>
           (Eval(call.h) = 1 <=> LeftValue >= RightValue)

====
